---- MODULE Spec2Model ----
(***************************************************************************)
(* Model of chi_annotator/algo_factory/common.py: Metadata, Message and    *)
(* TrainingData.                                                           *)
(*                                                                         *)
(* Python containers are objects with identity, so they live in a heap:    *)
(* a value is either a scalar or a reference to a heap object, and two     *)
(* references to the same object see each other's in-place changes.        *)
(***************************************************************************)
EXTENDS Integers, Sequences, FiniteSets, TLC

VARIABLES heap, msgs, pre, last, steps, chain,
          pool, training_examples, lazy, tdLast, muts,
          ma, mb, eqLast,
          store, files, clock, mdLast

msgVars == <<heap, msgs, pre, last, steps, chain>>
tdVars == <<pool, training_examples, lazy, tdLast, muts>>
eqVars == <<ma, mb, eqLast>>
metaVars == <<store, files, clock, mdLast>>
vars == <<msgVars, tdVars, eqVars, metaVars>>

(***************************************************************************)
(* Bounds of the Message model.                                            *)
(***************************************************************************)
\* number of Message method calls explored after construction
MaxSteps == 2
\* heap objects that exist before the first call: the caller's list and
\* mapping, and each Message's data mapping and output set
BaseObjs == 6

\* a call allocates at most two objects (a literal argument, or the {} and
\* set() of a constructor)
Objs == 1..(BaseObjs + 2 * MaxSteps)
MsgIds == {1, 2}
Keys == {"entities", "text"}

(***************************************************************************)
(* Values.  sc names a scalar (or "obj" for a reference, "absent" for a    *)
(* key that is not in a mapping); ref is 0 or the heap object referred to. *)
(***************************************************************************)
Scalar(s) == [ref |-> 0, sc |-> s]
Ref(o) == [ref |-> o, sc |-> "obj"]
Absent == [ref |-> 0, sc |-> "absent"]
None == Scalar("None")

EmptyMap == [k \in Keys |-> Absent]
FreeObj == [kind |-> "free", items |-> <<>>, map |-> EmptyMap, elems |-> {}]
ListObj(s) == [kind |-> "list", items |-> s, map |-> EmptyMap, elems |-> {}]
DictObj(f) == [kind |-> "dict", items |-> <<>>, map |-> f, elems |-> {}]
SetObj(e) == [kind |-> "set", items |-> <<>>, map |-> EmptyMap, elems |-> e]

\* type(x) of a scalar
TypeOfScalar(s) ==
  CASE s = "None" -> "NoneType"
    [] s \in {"1", "2"} -> "int"
    [] OTHER -> "str"

\* type(x): the kind of the object referred to, or the scalar's type
TypeOf(h, v) == IF v.ref # 0 THEN h[v.ref].kind ELSE TypeOfScalar(v.sc)

\* the object a container expression evaluates to: the lowest free slot
Alloc(h) == CHOOSE o \in Objs : h[o].kind = "free" /\ \A p \in Objs : p < o => h[p].kind # "free"

\* bool(x) of a constructor argument: None and empty containers are falsy
Truthy(h, v) ==
  IF v.ref = 0 THEN v.sc \notin {"None", "absent"}
  ELSE LET o == h[v.ref] IN
       CASE o.kind = "list" -> o.items # <<>>
         [] o.kind = "dict" -> o.map # EmptyMap
         [] o.kind = "set" -> o.elems # {}
         [] OTHER -> FALSE

(***************************************************************************)
(* Message                                                                 *)
(***************************************************************************)
\* Message.__init__: data and output_properties are kept by reference when
\* truthy, otherwise a fresh {} / set() is made.
Message_init(h, text, data, output_properties) ==
  LET d == IF Truthy(h, data) THEN data.ref ELSE Alloc(h)
      h1 == IF Truthy(h, data) THEN h ELSE [h EXCEPT ![d] = DictObj(EmptyMap)]
      s == IF Truthy(h1, output_properties) THEN output_properties.ref ELSE Alloc(h1)
      h2 == IF Truthy(h1, output_properties) THEN h1 ELSE [h1 EXCEPT ![s] = SetObj({})]
  IN [heap |-> h2, msg |-> [text |-> text, data |-> d, out |-> s]]

\* self.output_properties.add(prop) when add_to_output
AddToOutput(h, m, prop, add_to_output) ==
  IF add_to_output THEN [h EXCEPT ![m.out].elems = @ \cup {Scalar(prop)}] ELSE h

\* Message.set
Message_set(h, m, prop, info, add_to_output) ==
  AddToOutput([h EXCEPT ![m.data].map[prop] = info], m, prop, add_to_output)

\* Message.get(prop) with the default None
Message_get(h, m, prop) ==
  IF h[m.data].map[prop] = Absent THEN None ELSE h[m.data].map[prop]

\* a plausible slip: the new value is stored before the kinds are compared
Message_update_overwrite(h, m, prop, info, add_to_output) ==
  LET cur == h[m.data].map[prop] IN
  IF cur # Absent /\ TypeOf(h, info) = TypeOf(h, cur) /\ TypeOf(h, cur) = "list"
  THEN [heap |-> AddToOutput([h EXCEPT ![cur.ref].items = @ \o h[info.ref].items],
                             m, prop, add_to_output), ret |-> TRUE]
  ELSE IF cur # Absent /\ TypeOf(h, info) = TypeOf(h, cur) /\ TypeOf(h, cur) = "dict"
  THEN [heap |-> AddToOutput([h EXCEPT ![cur.ref].map =
                   [k \in Keys |-> IF h[info.ref].map[k] # Absent
                                   THEN h[info.ref].map[k] ELSE @[k]]],
                             m, prop, add_to_output), ret |-> TRUE]
  ELSE IF cur # Absent /\ TypeOf(h, info) = TypeOf(h, cur) /\ TypeOf(h, cur) = "set"
  THEN [heap |-> AddToOutput([h EXCEPT ![cur.ref].elems = @ \cup h[info.ref].elems],
                             m, prop, add_to_output), ret |-> TRUE]
  ELSE IF cur # Absent
  THEN [heap |-> [h EXCEPT ![m.data].map[prop] = info], ret |-> FALSE]
  ELSE [heap |-> AddToOutput([h EXCEPT ![m.data].map[prop] = info],
                             m, prop, add_to_output), ret |-> TRUE]

\* a plausible slip: a present list is replaced instead of extended
Message_update_replace(h, m, prop, info, add_to_output) ==
  LET cur == h[m.data].map[prop] IN
  IF cur # Absent /\ (TypeOf(h, info) # TypeOf(h, cur)
                      \/ TypeOf(h, cur) \notin {"list", "dict", "set"})
  THEN [heap |-> h, ret |-> FALSE]
  ELSE [heap |-> AddToOutput([h EXCEPT ![m.data].map[prop] = info],
                             m, prop, add_to_output), ret |-> TRUE]

\* Message.update: the new heap and the returned boolean
Message_update(h, m, prop, info, add_to_output) ==
  LET cur == h[m.data].map[prop] IN
  IF cur # Absent
  THEN IF TypeOf(h, info) # TypeOf(h, cur)
       THEN [heap |-> h, ret |-> FALSE]
       ELSE IF TypeOf(h, cur) = "list"
       THEN [heap |-> AddToOutput([h EXCEPT ![cur.ref].items = @ \o h[info.ref].items],
                                  m, prop, add_to_output), ret |-> TRUE]
       ELSE IF TypeOf(h, cur) = "dict"
       THEN [heap |-> AddToOutput([h EXCEPT ![cur.ref].map =
                        [k \in Keys |-> IF h[info.ref].map[k] # Absent
                                        THEN h[info.ref].map[k] ELSE @[k]]],
                                  m, prop, add_to_output), ret |-> TRUE]
       ELSE IF TypeOf(h, cur) = "set"
       THEN [heap |-> AddToOutput([h EXCEPT ![cur.ref].elems = @ \cup h[info.ref].elems],
                                  m, prop, add_to_output), ret |-> TRUE]
       ELSE [heap |-> h, ret |-> FALSE]
  ELSE [heap |-> AddToOutput([h EXCEPT ![m.data].map[prop] = info],
                             m, prop, add_to_output), ret |-> TRUE]

\* a plausible slip: dict(text=self.text, **d), where d's own "text" entry wins
Message_as_dict_data_wins(h, m, only_output_properties) ==
  LET d == IF only_output_properties
           THEN [k \in Keys |-> IF Scalar(k) \in h[m.out].elems
                                THEN h[m.data].map[k] ELSE Absent]
           ELSE h[m.data].map
  IN [k \in Keys |-> IF k = "text" /\ d[k] = Absent THEN m.text ELSE d[k]]

\* Message.as_dict: dict(d, text=self.text), a new mapping
Message_as_dict(h, m, only_output_properties) ==
  LET d == IF only_output_properties
           THEN [k \in Keys |-> IF Scalar(k) \in h[m.out].elems
                                THEN h[m.data].map[k] ELSE Absent]
           ELSE h[m.data].map
  IN [d EXCEPT !["text"] = m.text]

(***************************************************************************)
(* The caller of Message.  Texts are fixed per Message; arguments are      *)
(* scalars, containers the caller already holds, or container literals.    *)
(***************************************************************************)
Text(m) == IF m = 1 THEN Scalar("t1") ELSE Scalar("t2")

ScalarArgs == {Scalar("1"), Scalar("a")}

Literals ==
  { ListObj(<<Scalar("a")>>),
    DictObj([EmptyMap EXCEPT !["text"] = Scalar("a")]),
    SetObj({Scalar("1")}) }

\* containers the caller holds: every object that is not, at the moment, a
\* Message's own data mapping or output set
CallerObjs(h, ms) ==
  {o \in Objs : h[o].kind # "free" /\ \A m \in MsgIds : o \notin {ms[m].data, ms[m].out}}

\* what evaluating the argument expression gives: the heap (a literal makes
\* a new object) and the value passed
ArgChoices(h, ms) ==
  {[heap |-> h, info |-> v] : v \in ScalarArgs \cup {Ref(o) : o \in CallerObjs(h, ms)}}
  \cup {[heap |-> [h EXCEPT ![Alloc(h)] = lit], info |-> Ref(Alloc(h))] : lit \in Literals}

NoChain == [m |-> 0, prop |-> "", exp |-> <<>>]
NoCall == [op |-> "none", m |-> 0, prop |-> "", info |-> Absent, add |-> FALSE,
           ret |-> TRUE, res |-> EmptyMap]

\* the data arguments the first Message is constructed with
InitMaps ==
  { EmptyMap,
    [EmptyMap EXCEPT !["entities"] = Ref(1)],
    [EmptyMap EXCEPT !["entities"] = Scalar("1"), !["text"] = Scalar("a")] }

\* the state after  L = [1, 2]; D = {...}; m1 = Message("t1", D);
\* m2 = Message("t2")
InitMsg ==
  \E f \in InitMaps :
    LET h0 == [o \in Objs |-> IF o = 1 THEN ListObj(<<Scalar("1"), Scalar("2")>>)
                              ELSE IF o = 2 THEN DictObj(f) ELSE FreeObj]
        r1 == Message_init(h0, Text(1), Ref(2), None)
        r2 == Message_init(r1.heap, Text(2), None, None)
    IN /\ heap = r2.heap
       /\ msgs = [m \in MsgIds |-> IF m = 1 THEN r1.msg ELSE r2.msg]
       /\ pre = r2.heap
       /\ last = NoCall
       /\ steps = 0
       /\ chain = NoChain

\* m = Message(text, data, output_properties), rebinding the name m
Construct(m) ==
  /\ steps < MaxSteps
  /\ \E data \in {None} \cup {Ref(o) : o \in {x \in Objs : heap[x].kind = "dict"}},
        out \in {None} \cup {Ref(o) : o \in {x \in Objs : heap[x].kind = "set"}} :
       LET r == Message_init(heap, Text(m), data, out) IN
       /\ heap' = r.heap
       /\ msgs' = [msgs EXCEPT ![m] = r.msg]
       /\ pre' = heap
       /\ last' = [NoCall EXCEPT !.op = "init", !.m = m, !.info = data]
  /\ steps' = steps + 1
  /\ chain' = NoChain

\* m.set(prop, info, add_to_output)
Set(m) ==
  /\ steps < MaxSteps
  /\ \E prop \in Keys, a \in ArgChoices(heap, msgs), add \in BOOLEAN :
       /\ heap' = Message_set(a.heap, msgs[m], prop, a.info, add)
       /\ pre' = a.heap
       /\ last' = [NoCall EXCEPT !.op = "set", !.m = m, !.prop = prop,
                                 !.info = a.info, !.add = add]
  /\ steps' = steps + 1
  /\ chain' = NoChain
  /\ UNCHANGED msgs

\* the running expectation of a series update(p, s1), update(p, s2), ...
\* of sequences on one Message that began with p absent
NextChain(h, m, prop, info) ==
  IF TypeOf(h, info) # "list" THEN NoChain
  ELSE IF h[msgs[m].data].map[prop] = Absent
       THEN [m |-> m, prop |-> prop, exp |-> h[info.ref].items]
  ELSE IF chain.m = m /\ chain.prop = prop
       THEN [chain EXCEPT !.exp = @ \o h[info.ref].items]
  ELSE NoChain

\* ret = m.update(prop, info, add_to_output)
Update(m) ==
  /\ steps < MaxSteps
  /\ \E prop \in Keys, a \in ArgChoices(heap, msgs), add \in BOOLEAN :
       LET r == Message_update(a.heap, msgs[m], prop, a.info, add) IN
       /\ heap' = r.heap
       /\ pre' = a.heap
       /\ last' = [NoCall EXCEPT !.op = "update", !.m = m, !.prop = prop,
                                 !.info = a.info, !.add = add, !.ret = r.ret]
       /\ chain' = NextChain(a.heap, m, prop, a.info)
  /\ steps' = steps + 1
  /\ UNCHANGED msgs

\* res = m.as_dict(only_output_properties)
AsDict(m) ==
  /\ steps < MaxSteps
  /\ \E only \in BOOLEAN :
       last' = [NoCall EXCEPT !.op = "as_dict", !.m = m, !.add = only,
                              !.res = Message_as_dict(heap, msgs[m], only)]
  /\ pre' = heap
  /\ steps' = steps + 1
  /\ chain' = NoChain
  /\ UNCHANGED <<heap, msgs>>


(***************************************************************************)
(* TrainingData.  Its Messages are objects too: training_examples and the  *)
(* memoized views hold Message identities (indices into pool), and pool    *)
(* holds what each Message's data has under "classify" and "entities".     *)
(***************************************************************************)
\* Messages a corpus is built from
MaxExamples == 2
\* changes made to a corpus after its construction
MaxMuts == 1

PoolIds == 1..(MaxExamples + 1)

\* entity type names as character codes, compared as Python compares str
City == <<99, 105, 116, 121>>
Person == <<112, 101, 114, 115, 111, 110>>

Entity(type, value) == [entity |-> type, value |-> value]

\* a property of a Message: absent, None, a label, or a list of entities
PAbsent == [tag |-> "absent", label |-> "", items |-> <<>>]
PNone == [tag |-> "None", label |-> "", items |-> <<>>]
PLabel(l) == [tag |-> "str", label |-> l, items |-> <<>>]
PList(s) == [tag |-> "list", label |-> "", items |-> s]

ClassifyValues == {PAbsent, PNone, PLabel("book_flight")}
EntitiesValues ==
  { PAbsent, PNone, PList(<<>>),
    PList(<<Entity(City, "NYC")>>),
    PList(<<Entity(Person, "Bob"), Entity(City, "LA")>>) }

\* e.get(prop, default)
Example_get(e, prop, default) == IF e[prop].tag = "absent" THEN default ELSE e[prop]

\* the outcome of evaluating an expression: a value or a raised exception
Ok(v) == [err |-> "", val |-> v]
Raise(e) == [err |-> e, val |-> <<>>]

\* @lazyproperty: the first read computes and stores, later reads return what
\* is stored; a computation that raises stores nothing
NotCached == [set |-> FALSE, val |-> <<>>]
LazyRead(cache, computed) ==
  IF cache.set THEN [cache |-> cache, out |-> Ok(cache.val)]
  ELSE IF computed.err # "" THEN [cache |-> cache, out |-> computed]
  ELSE [cache |-> [set |-> TRUE, val |-> computed.val], out |-> computed]

\* [e for e in xs if e.get(prop) is not None]
FilterNotNone(xs, pl, prop) ==
  SelectSeq(xs, LAMBDA e : Example_get(pl[e], prop, PNone) # PNone)

\* TrainingData.classify_examples, the decorated function
classify_examples(te, pl) == Ok(FilterNotNone(te, pl, "classify"))

\* TrainingData.entity_examples, the decorated function
entity_examples(te, pl) == Ok(FilterNotNone(te, pl, "entities"))

\* TrainingData.num_entity_examples, the decorated function:
\* len(e.get("entities", [])) raises TypeError on None
num_entity_examples(te, pl) ==
  IF \E i \in 1..Len(te) : Example_get(pl[te[i]], "entities", PList(<<>>)).tag # "list"
  THEN Raise("TypeError")
  ELSE Ok(Len(SelectSeq(te, LAMBDA e :
             Len(Example_get(pl[e], "entities", PList(<<>>)).items) > 0)))

\* the attributes a TrainingData object has
TrainingDataAttrs ==
  { "training_examples", "classify_examples", "entity_examples",
    "num_entity_examples", "num_intent_examples", "example_iter", "as_json",
    "as_markdown", "persist", "sorted_entity_examples",
    "sorted_classify_examples", "validate",
    "MIN_EXAMPLES_PER_CLASSIFY", "MIN_EXAMPLES_PER_ENTITY" }

\* TrainingData.num_intent_examples, the decorated function:
\* len(self.intent_examples)
num_intent_examples(te, pl, attrs) ==
  IF "intent_examples" \notin attrs THEN Raise("AttributeError")
  ELSE Ok(Len(FilterNotNone(te, pl, "classify")))

\* a < b for str
RECURSIVE StrLess(_, _)
StrLess(a, b) ==
  IF b = <<>> THEN FALSE
  ELSE IF a = <<>> THEN TRUE
  ELSE IF Head(a) # Head(b) THEN Head(a) < Head(b)
  ELSE StrLess(Tail(a), Tail(b))

\* a plausible slip: a sort that puts an item before the items of equal key
InsertBeforeEqual(x, s) ==
  LET n == Cardinality({i \in 1..Len(s) : StrLess(s[i].entity, x.entity)})
  IN SubSeq(s, 1, n) \o <<x>> \o SubSeq(s, n + 1, Len(s))

\* one step of a stable sort: x goes after every item whose key is not
\* greater than its own (s is sorted)
InsertSorted(x, s) ==
  LET n == Cardinality({i \in 1..Len(s) : ~StrLess(x.entity, s[i].entity)})
  IN SubSeq(s, 1, n) \o <<x>> \o SubSeq(s, n + 1, Len(s))

\* sorted(xs, key=lambda e: e["entity"]): ascending and stable
RECURSIVE SortedByEntity(_)
SortedByEntity(xs) ==
  IF xs = <<>> THEN <<>>
  ELSE InsertSorted(xs[Len(xs)], SortedByEntity(SubSeq(xs, 1, Len(xs) - 1)))

\* [entity for ex in exs for entity in ex.get("entities")]
RECURSIVE Flatten(_, _)
Flatten(exs, pl) ==
  IF exs = <<>> THEN <<>>
  ELSE Example_get(pl[Head(exs)], "entities", PNone).items \o Flatten(Tail(exs), pl)

\* TrainingData.sorted_entity_examples over the entity examples it read:
\* iterating None raises TypeError
sorted_entity_examples(exs, pl) ==
  IF \E i \in 1..Len(exs) : Example_get(pl[exs[i]], "entities", PNone).tag # "list"
  THEN Raise("TypeError")
  ELSE Ok(SortedByEntity(Flatten(exs, pl)))

NoRead == [op |-> "none", err |-> "", seq |-> <<>>, num |-> 0, recs |-> <<>>]

\* what reading each view gives now: the memoized value if there is one
ClassifyView == LazyRead(lazy.classify_examples, classify_examples(training_examples, pool)).out
EntityView == LazyRead(lazy.entity_examples, entity_examples(training_examples, pool)).out

\* TrainingData.__init__ on a sequence of up to MaxExamples Messages
InitTD ==
  /\ pool \in [PoolIds -> [classify : ClassifyValues, entities : EntitiesValues]]
  /\ \E n \in 0..MaxExamples :
       /\ training_examples = [i \in 1..n |-> i]
       /\ \A i \in PoolIds : i > n => pool[i] = [classify |-> PAbsent, entities |-> PAbsent]
  /\ lazy = [classify_examples |-> NotCached, entity_examples |-> NotCached,
             num_entity_examples |-> NotCached, num_intent_examples |-> NotCached]
  /\ tdLast = NoRead
  /\ muts = 0

\* x = td.classify_examples
ReadClassifyExamples ==
  LET r == LazyRead(lazy.classify_examples, classify_examples(training_examples, pool)) IN
  /\ lazy' = [lazy EXCEPT !.classify_examples = r.cache]
  /\ tdLast' = [NoRead EXCEPT !.op = "classify_examples", !.err = r.out.err, !.seq = r.out.val]
  /\ UNCHANGED <<pool, training_examples, muts>>

\* x = td.entity_examples
ReadEntityExamples ==
  LET r == LazyRead(lazy.entity_examples, entity_examples(training_examples, pool)) IN
  /\ lazy' = [lazy EXCEPT !.entity_examples = r.cache]
  /\ tdLast' = [NoRead EXCEPT !.op = "entity_examples", !.err = r.out.err, !.seq = r.out.val]
  /\ UNCHANGED <<pool, training_examples, muts>>

\* x = td.num_entity_examples
ReadNumEntityExamples ==
  LET r == LazyRead(lazy.num_entity_examples, num_entity_examples(training_examples, pool)) IN
  /\ lazy' = [lazy EXCEPT !.num_entity_examples = r.cache]
  /\ tdLast' = [NoRead EXCEPT !.op = "num_entity_examples", !.err = r.out.err,
                              !.num = IF r.out.err = "" THEN r.out.val ELSE 0]
  /\ UNCHANGED <<pool, training_examples, muts>>

\* x = td.num_intent_examples
ReadNumIntentExamples ==
  LET r == LazyRead(lazy.num_intent_examples,
                    num_intent_examples(training_examples, pool, TrainingDataAttrs)) IN
  /\ lazy' = [lazy EXCEPT !.num_intent_examples = r.cache]
  /\ tdLast' = [NoRead EXCEPT !.op = "num_intent_examples", !.err = r.out.err,
                              !.num = IF r.out.err = "" THEN r.out.val ELSE 0]
  /\ UNCHANGED <<pool, training_examples, muts>>

\* x = td.sorted_entity_examples(), which reads self.entity_examples
SortedEntityExamples ==
  LET r == LazyRead(lazy.entity_examples, entity_examples(training_examples, pool))
      s == sorted_entity_examples(r.out.val, pool) IN
  /\ lazy' = [lazy EXCEPT !.entity_examples = r.cache]
  /\ tdLast' = [NoRead EXCEPT !.op = "sorted_entity_examples", !.err = s.err,
                              !.seq = r.out.val,
                              !.recs = IF s.err = "" THEN s.val ELSE <<>>]
  /\ UNCHANGED <<pool, training_examples, muts>>

\* the caller changes the corpus after construction:
\* td.training_examples.append(m)
AppendExample ==
  /\ muts < MaxMuts
  /\ \E m \in PoolIds : training_examples' = Append(training_examples, m)
  /\ muts' = muts + 1
  /\ UNCHANGED <<pool, lazy, tdLast>>

\* del td.training_examples[i]
RemoveExample ==
  /\ muts < MaxMuts
  /\ \E i \in 1..Len(training_examples) :
       training_examples' = SubSeq(training_examples, 1, i - 1)
                            \o SubSeq(training_examples, i + 1, Len(training_examples))
  /\ muts' = muts + 1
  /\ UNCHANGED <<pool, lazy, tdLast>>

\* m.set("classify", v) or m.set("entities", v) on a Message of the corpus
SetProperty ==
  /\ muts < MaxMuts
  /\ \E i \in 1..Len(training_examples) :
       \/ \E v \in ClassifyValues \ {PAbsent} :
            pool' = [pool EXCEPT ![training_examples[i]].classify = v]
       \/ \E v \in EntitiesValues \ {PAbsent} :
            pool' = [pool EXCEPT ![training_examples[i]].entities = v]
  /\ muts' = muts + 1
  /\ UNCHANGED <<training_examples, lazy, tdLast>>

ReadTD ==
  \/ ReadClassifyExamples
  \/ ReadEntityExamples
  \/ ReadNumEntityExamples
  \/ ReadNumIntentExamples
  \/ SortedEntityExamples

(***************************************************************************)
(* Message equality and hash.  Here a dict is the sequence of its items in *)
(* insertion order, as Python iterates it; a value is an int or a nested   *)
(* dict of ints.                                                           *)
(***************************************************************************)
DataKeys == {"a", "b"}

\* the code point of a one-character key
KeyCode(k) == IF k = "a" THEN 97 ELSE 98

VInt(n) == [tag |-> "int", n |-> n, d |-> <<>>]
VDict(d) == [tag |-> "dict", n |-> 0, d |-> d]

\* d[k] = v on a dict: a present key keeps its place, a new key goes last
DictSetItem(d, k, v) ==
  IF \E i \in 1..Len(d) : d[i][1] = k
  THEN [i \in 1..Len(d) |-> IF d[i][1] = k THEN <<k, v>> ELSE d[i]]
  ELSE Append(d, <<k, v>>)

\* one step of sorted() on (key, value) tuples with distinct keys
InsertItem(x, s) ==
  LET n == Cardinality({i \in 1..Len(s) : KeyCode(s[i][1]) < KeyCode(x[1])})
  IN SubSeq(s, 1, n) \o <<x>> \o SubSeq(s, n + 1, Len(s))

RECURSIVE SortedItems(_)
SortedItems(d) ==
  IF d = <<>> THEN <<>>
  ELSE InsertItem(d[Len(d)], SortedItems(SubSeq(d, 1, Len(d) - 1)))

\* utils.ordered on a nested dict of ints (one level of nesting):
\* sorted((k, ordered(v)) for k, v in obj.items()), other values as they are
OrderedInner(v) == IF v.tag = "dict" THEN VDict(SortedItems(v.d)) ELSE v
ordered(d) ==
  SortedItems([i \in 1..Len(d) |-> <<d[i][1], OrderedInner(d[i][2])>>])

\* str() of an ordered form, as character codes: [('a', 1), ('b', [...])]
RECURSIVE StrItems(_, _)
StrItems(d, inner) ==
  IF d = <<>> THEN <<>>
  ELSE <<40, 39, KeyCode(d[1][1]), 39, 44, 32>>
       \o (IF d[1][2].tag = "int" THEN <<48 + d[1][2].n>>
           ELSE IF inner THEN <<63>>
           ELSE <<91>> \o StrItems(d[1][2].d, TRUE) \o <<93>>)
       \o <<41>>
       \o (IF Len(d) > 1 THEN <<44, 32>> ELSE <<>>)
       \o StrItems(Tail(d), inner)

Str(d) == <<91>> \o StrItems(d, FALSE) \o <<93>>

\* 31^n, to 12 bits
RECURSIVE Pow31(_)
Pow31(n) ==
  IF n = 0 THEN 1
  ELSE LET h == Pow31(n \div 2) IN (h * h * (IF n % 2 = 1 THEN 31 ELSE 1)) % 4096

\* hash() of a string: the polynomial hash of characters lo..hi of cs, kept
\* to 12 bits
RECURSIVE HashCodes(_, _, _)
HashCodes(cs, lo, hi) ==
  IF lo > hi THEN 0
  ELSE IF lo = hi THEN cs[lo] % 4096
  ELSE LET mid == (lo + hi) \div 2 IN
       (HashCodes(cs, lo, mid) * Pow31(hi - mid) + HashCodes(cs, mid + 1, hi)) % 4096

TextCodes(t) == IF t = "t" THEN <<116>> ELSE <<117>>

\* a plausible slip: the data are compared as stored, without ordered()
Message_eq_unordered(x, y) == <<y.text, y.data>> = <<x.text, x.data>>

\* Message.__eq__ between two Message objects
Message_eq(x, y) == <<y.text, ordered(y.data)>> = <<x.text, ordered(x.data)>>

\* Message.__hash__
Message_hash(x) ==
  LET cs == TextCodes(x.text) \o <<0>> \o Str(ordered(x.data))
  IN HashCodes(cs, 1, Len(cs))

NestedDicts ==
  { <<<<"a", VInt(1)>>>>,
    <<<<"a", VInt(1)>>, <<"b", VInt(2)>>>>,
    <<<<"b", VInt(2)>>, <<"a", VInt(1)>>>> }

DataValues == {VInt(1), VInt(2)} \cup {VDict(d) : d \in NestedDicts}

NoCompare == [done |-> FALSE, eq |-> FALSE, ha |-> 0, hb |-> 0]

\* two Messages with empty data
InitEq ==
  /\ ma \in [text : {"t", "u"}, data : {<<>>}]
  /\ mb \in [text : {"t", "u"}, data : {<<>>}]
  /\ eqLast = NoCompare

\* a.data[k] = v, as Message.set does it
SetA ==
  /\ \E k \in DataKeys, v \in DataValues :
       ma' = [ma EXCEPT !.data = DictSetItem(@, k, v)]
  /\ eqLast' = NoCompare
  /\ UNCHANGED mb

\* b.data[k] = v
SetB ==
  /\ \E k \in DataKeys, v \in DataValues :
       mb' = [mb EXCEPT !.data = DictSetItem(@, k, v)]
  /\ eqLast' = NoCompare
  /\ UNCHANGED ma

\* a == b, hash(a), hash(b)
Compare ==
  /\ eqLast' = [done |-> TRUE, eq |-> Message_eq(ma, mb),
                ha |-> Message_hash(ma), hb |-> Message_hash(mb)]
  /\ UNCHANGED <<ma, mb>>

(***************************************************************************)
(* Metadata.  store holds the dict objects of one Metadata: slot 1 is the  *)
(* object self.metadata refers to, slot 2 the dict that the local name     *)
(* metadata of the latest persist call refers to when it is a new object.  *)
(***************************************************************************)
\* seconds that may pass while the model is observed
MaxClock == 2

MetaKeys == {"language", "pipeline", "trained_at", "nlu_version"}
Dirs == {"models/a", "models/b"}

MAbsent == [tag |-> "absent", str |-> "", list |-> <<>>]
MStr(x) == [tag |-> "str", str |-> x, list |-> <<>>]
MList(l) == [tag |-> "list", str |-> "", list |-> l]

\* chi_annotator.algo_factory.__version__
Version == MStr("0.1.0")

\* datetime.now().strftime('%Y%m%d-%H%M%S') for the t-th second after
\* 2018-01-01 00:00:58
Two(n) == <<n \div 10, n % 10>>
Strftime(t) ==
  LET secs == 58 + t IN
  [tag |-> "str", str |-> "20180101-",
   list |-> Two(secs \div 3600) \o Two((secs % 3600) \div 60) \o Two(secs % 60)]

\* Metadata.get(property_name, default)
Metadata_get(d, property_name, default) ==
  IF d[property_name] = MAbsent THEN default ELSE d[property_name]

\* Metadata.language
language(d) == Metadata_get(d, "language", MAbsent)

\* Metadata.pipeline
pipeline(d) == Metadata_get(d, "pipeline", MList(<<>>))

\* a plausible slip: metadata = self.metadata, no copy
DictAlias(st, ref) == [store |-> st, ref |-> ref]

\* self.metadata.copy(): a new dict object with the same entries
DictCopy(st, ref) == [store |-> [st EXCEPT ![2] = st[ref]], ref |-> 2]

\* Metadata.persist up to the write: the store afterwards and the document
\* handed to json.dumps
Metadata_persist(st, now, version) ==
  LET c == DictCopy(st, 1)
      st2 == [c.store EXCEPT ![c.ref] =
                [@ EXCEPT !["trained_at"] = Strftime(now), !["nlu_version"] = version]]
  IN [store |-> st2, doc |-> st2[c.ref]]

NoDict == [k \in MetaKeys |-> MAbsent]
NoPersist == [done |-> FALSE, dir |-> "", before |-> NoDict]

\* Metadata(metadata, model_dir) for the documents of interest
InitMeta ==
  /\ \E l \in {MAbsent, MStr("en"), MStr("zh")},
        p \in {MAbsent, MList(<<>>), MList(<<"tokenizer">>), MList(<<"tokenizer", "ner">>)},
        t \in {MAbsent, Strftime(0)},
        v \in {MAbsent, MStr("0.0.9")} :
       store = [o \in {1, 2} |->
                  IF o = 1 THEN [language |-> l, pipeline |-> p, trained_at |-> t,
                                 nlu_version |-> v]
                  ELSE NoDict]
  /\ files = [d \in Dirs |-> NoDict]
  /\ clock = 0
  /\ mdLast = NoPersist

\* md.persist(model_dir), at some time not before the last one observed
Persist ==
  \E dir \in Dirs, now \in clock..MaxClock :
    LET r == Metadata_persist(store, now, Version) IN
    /\ store' = r.store
    /\ files' = [files EXCEPT ![dir] = r.doc]
    /\ clock' = now
    /\ mdLast' = [done |-> TRUE, dir |-> dir, before |-> store[1]]

(***************************************************************************)
(* Specifications                                                          *)
(***************************************************************************)
IdleMsg ==
  /\ heap = [o \in Objs |-> FreeObj]
  /\ msgs = [m \in MsgIds |-> [text |-> Text(m), data |-> 1, out |-> 1]]
  /\ pre = [o \in Objs |-> FreeObj]
  /\ last = NoCall
  /\ steps = 0
  /\ chain = NoChain

IdleTD ==
  /\ pool = [i \in PoolIds |-> [classify |-> PAbsent, entities |-> PAbsent]]
  /\ training_examples = <<>>
  /\ lazy = [classify_examples |-> NotCached, entity_examples |-> NotCached,
             num_entity_examples |-> NotCached, num_intent_examples |-> NotCached]
  /\ tdLast = NoRead
  /\ muts = 0

IdleEq ==
  /\ ma = [text |-> "t", data |-> <<>>]
  /\ mb = [text |-> "t", data |-> <<>>]
  /\ eqLast = NoCompare

IdleMeta ==
  /\ store = [o \in {1, 2} |-> NoDict]
  /\ files = [d \in Dirs |-> NoDict]
  /\ clock = 0
  /\ mdLast = NoPersist

\* Message objects and their callers
Init == InitMsg /\ IdleTD /\ IdleEq /\ IdleMeta

Next ==
  \/ \E m \in MsgIds : Construct(m) /\ UNCHANGED <<tdVars, eqVars, metaVars>>
  \/ \E m \in MsgIds : Set(m) /\ UNCHANGED <<tdVars, eqVars, metaVars>>
  \/ \E m \in MsgIds : Update(m) /\ UNCHANGED <<tdVars, eqVars, metaVars>>
  \/ \E m \in MsgIds : AsDict(m) /\ UNCHANGED <<tdVars, eqVars, metaVars>>

Spec == Init /\ [][Next]_vars

\* a TrainingData that is only read after its construction
InitCorpus == InitTD /\ IdleMsg /\ IdleEq /\ IdleMeta

NextTD == ReadTD /\ UNCHANGED <<msgVars, eqVars, metaVars>>

SpecTD == InitCorpus /\ [][NextTD]_vars

\* a TrainingData whose corpus the caller also changes after construction
NextTDMutate ==
  \/ ReadTD /\ UNCHANGED <<msgVars, eqVars, metaVars>>
  \/ AppendExample /\ UNCHANGED <<msgVars, eqVars, metaVars>>
  \/ RemoveExample /\ UNCHANGED <<msgVars, eqVars, metaVars>>
  \/ SetProperty /\ UNCHANGED <<msgVars, eqVars, metaVars>>

SpecTDMutate == InitCorpus /\ [][NextTDMutate]_vars

\* two Messages compared and hashed
InitPair == InitEq /\ IdleMsg /\ IdleTD /\ IdleMeta

NextEq ==
  \/ SetA /\ UNCHANGED <<msgVars, tdVars, metaVars>>
  \/ SetB /\ UNCHANGED <<msgVars, tdVars, metaVars>>
  \/ Compare /\ UNCHANGED <<msgVars, tdVars, metaVars>>

SpecEq == InitPair /\ [][NextEq]_vars

\* a Metadata that is persisted again and again
InitModel == InitMeta /\ IdleMsg /\ IdleTD /\ IdleEq

NextMeta == Persist /\ UNCHANGED <<msgVars, tdVars, eqVars>>

SpecMeta == InitModel /\ [][NextMeta]_vars

(***************************************************************************)
(* Properties of Message                                                   *)
(***************************************************************************)
\* what a Message's data mapping holds: each entry, and for an entry that
\* is a container, the container's contents
DataSnapshot(h, m) ==
  [k \in Keys |-> [v |-> h[m.data].map[k],
                   obj |-> IF h[m.data].map[k].ref # 0
                           THEN h[h[m.data].map[k].ref] ELSE FreeObj]]

\* C1: whenever update(p, v) returns false, the Message's data mapping is
\* exactly what it was before the call, the value under p included.
C1_FailedUpdateLeavesData ==
  (last.op = "update" /\ ~last.ret) =>
     /\ DataSnapshot(heap, msgs[last.m]) = DataSnapshot(pre, msgs[last.m])
     /\ heap = pre

\* C1 happens: an update failed on a present list given a mapping, or on a
\* present scalar given a scalar of the same type
C1_Witness ==
  /\ last.op = "update" /\ ~last.ret
  /\ LET cur == pre[msgs[last.m].data].map[last.prop] IN
     \/ TypeOf(pre, cur) = "list" /\ TypeOf(pre, last.info) = "dict"
     \/ TypeOf(pre, cur) = "int" /\ TypeOf(pre, last.info) = "int"

\* C5: in a series update(p, s1), ..., update(p, sn) of sequences that began
\* with p absent, every call returns true and get(p) is s1 ++ ... ++ sn.
C5_SequenceUpdatesConcatenate ==
  chain.m # 0 =>
     /\ last.op = "update" /\ last.ret
     /\ LET v == Message_get(heap, msgs[chain.m], chain.prop) IN
        /\ TypeOf(heap, v) = "list"
        /\ heap[v.ref].items = chain.exp

\* C5 happens: a later call of the series extended a non-empty sequence
C5_Witness ==
  /\ chain.m # 0
  /\ pre[msgs[chain.m].data].map[chain.prop] # Absent
  /\ Len(chain.exp) >= 3
  /\ chain.exp[1] # chain.exp[Len(chain.exp)]

\* C8: as_dict() has "text" equal to the Message's text; its other entries
\* are the data entries whose key is in output_properties when
\* only_output_properties, and all data entries otherwise.
C8_AsDictHasText ==
  last.op = "as_dict" =>
     /\ last.res["text"] = msgs[last.m].text
     /\ \A k \in Keys \ {"text"} :
          last.res[k] = IF last.add /\ Scalar(k) \notin heap[msgs[last.m].out].elems
                        THEN Absent ELSE heap[msgs[last.m].data].map[k]

\* C8 happens: as_dict of a Message whose data has its own "text" entry,
\* projected to output properties that leave out a present entry
C8_Witness ==
  /\ last.op = "as_dict" /\ last.add
  /\ heap[msgs[last.m].data].map["text"] # Absent
  /\ heap[msgs[last.m].data].map["text"] # msgs[last.m].text
  /\ heap[msgs[last.m].data].map["entities"] # Absent
  /\ Scalar("entities") \notin heap[msgs[last.m].out].elems

\* C10: a successful m1.update(p, v) leaves every entry of any other
\* Message's data unchanged, and leaves unchanged every container the caller
\* passed to an earlier call.
C10_UpdateTouchesOnlyItsMessage ==
  (last.op = "update" /\ last.ret) =>
     /\ \A m \in MsgIds \ {last.m} :
          DataSnapshot(heap, msgs[m]) = DataSnapshot(pre, msgs[m])
     /\ \A o \in CallerObjs(pre, msgs) : heap[o] = pre[o]

(***************************************************************************)
(* Properties of TrainingData                                              *)
(***************************************************************************)
\* C2: in every state, also after reading a view and then changing the
\* corpus, classify_examples is exactly the Messages of the current
\* training_examples whose classify is not None, and entity_examples those
\* whose entities is not None, in the order of training_examples.
C2_ViewsReflectCurrentExamples ==
  /\ ClassifyView = classify_examples(training_examples, pool)
  /\ EntityView = entity_examples(training_examples, pool)

\* C3: reading num_intent_examples returns the length of classify_examples
\* and never ends in an error.
C3_NumIntentIsLenClassify ==
  tdLast.op = "num_intent_examples" =>
     /\ tdLast.err = ""
     /\ tdLast.num = Len(ClassifyView.val)

\* the Messages of the corpus whose entities value is a non-empty sequence
ProperEntityExamples ==
  {i \in 1..Len(training_examples) :
     /\ pool[training_examples[i]].entities.tag = "list"
     /\ pool[training_examples[i]].entities.items # <<>>}

\* C4: num_entity_examples is the number of Messages whose entities value is
\* a non-empty sequence; absent, None and empty entities are not counted and
\* do not make the read fail.
C4_NumEntityCountsNonEmpty ==
  tdLast.op = "num_entity_examples" =>
     /\ tdLast.err = ""
     /\ tdLast.num = Cardinality(ProperEntityExamples)

\* the entities of the corpus, Message by Message in training_examples order
RECURSIVE EntitiesUpTo(_)
EntitiesUpTo(n) ==
  IF n = 0 THEN <<>>
  ELSE EntitiesUpTo(n - 1)
       \o (IF pool[training_examples[n]].entities.tag = "list"
           THEN pool[training_examples[n]].entities.items ELSE <<>>)

AsMapping(d) ==
  [k \in {d[i][1] : i \in 1..Len(d)} |->
     LET v == (CHOOSE i \in 1..Len(d) : d[i][1] = k) IN
     IF d[v][2].tag = "int" THEN [n |-> d[v][2].n, keys |-> {}, at |-> <<0, 0>>]
     ELSE [n |-> 0,
           keys |-> {d[v][2].d[j][1] : j \in 1..Len(d[v][2].d)},
           at |-> <<IF \E j \in 1..Len(d[v][2].d) : d[v][2].d[j][1] = "a"
                    THEN d[v][2].d[CHOOSE j \in 1..Len(d[v][2].d) : d[v][2].d[j][1] = "a"][2].n
                    ELSE 0,
                    IF \E j \in 1..Len(d[v][2].d) : d[v][2].d[j][1] = "b"
                    THEN d[v][2].d[CHOOSE j \in 1..Len(d[v][2].d) : d[v][2].d[j][1] = "b"][2].n
                    ELSE 0>>]]

C9_PersistLeavesMetadata ==
  mdLast.done =>
     /\ store[1] = mdLast.before
     /\ language(store[1]) = language(mdLast.before)
     /\ pipeline(store[1]) = pipeline(mdLast.before)
     /\ files[mdLast.dir] = [mdLast.before EXCEPT !["trained_at"] = Strftime(clock),
                                                   !["nlu_version"] = Version]

\* C9 happens: a second persist, a minute later on the clock, of a Metadata
\* that has no trained_at of its own
C9_Witness ==
  /\ mdLast.done
  /\ store[1]["trained_at"] = MAbsent
  /\ store[1]["language"] # MAbsent
  /\ files[mdLast.dir]["trained_at"] = Strftime(2)
  /\ \E d \in Dirs : files[d]["trained_at"] = Strftime(1)

====
